---- MODULE Spec2Model ----
(***************************************************************************)
(* Orchestration core of the due-diligence research system:               *)
(* DueDiligenceWorkflow (src/src/workflows/due_diligence.py), its task    *)
(* graph, the task executor with its bounded batches, the routing         *)
(* function and the checkpointed run loop.                                *)
(***************************************************************************)
EXTENDS Integers, Sequences, FiniteSets, TLC

\* ------------------------------------------------------------------ bounds
\* most tasks one plan holds
MaxTasks == 4
\* supersteps one run may take before the graph library raises
\* GraphRecursionError (the library's default is 25; the code sets none)
RecursionLimit == 5
\* calls of run() on the one workflow instance
MaxRuns == 3
\* longest task list the routing function is tried on
RouteMaxLen == 3
\* calls of _ensure_compiled that run concurrently on one workflow instance
MaxCallers == 3
\* longest task list the executor node is entered with on its own
ExecMaxLen == 4
\* longest list of scopes MinimalWorkflow.run is called with
MaxScopes == 3
\* thresholds["max_failed_logins_per_hour"], 10 in the source, scaled down
max_failed_logins_per_hour == 2
\* maxlen of rate_windows["failed_logins"], 100 in the source, scaled down
\* and kept above the threshold as in the source
failed_logins_maxlen == 3
\* timedelta(hours=1) in ticks of the clock
HourTicks == 2
\* last tick of the clock
MaxTime == 3
\* most failed logins reported to the monitor
MaxLoginEvents == 5
\* maxlen of SecurityMonitor.alerts
alerts_maxlen == 1000

\* ------------------------------------------------------- program constants
\* min(len(pending_tasks), 3)
BatchLimit == 3

PENDING == "pending"
IN_PROGRESS == "in_progress"
COMPLETED == "completed"
FAILED == "failed"
TaskStatus == {PENDING, IN_PROGRESS, COMPLETED, FAILED}

\* the workers _execute_single_task knows by name
RegisteredAgents == {"research", "financial", "legal", "osint", "verification"}
\* the agent names a plan may carry: assigned_agent is an unvalidated string
PlanAgents == {"research", "analyst"}
\* priority of a planned task (the planner's default)
PlanPriorities == {5}
\* priorities and agent names the routing function is tried on
RoutePriorities == {1, 10}
RouteAgents == {"research", "analyst"}
\* thread ids a caller passes to run
ThreadIds == {"t1"}

NoCheckpoint == [none |-> TRUE]

\* the concurrent callers of _ensure_compiled on one workflow instance
Callers == 1..MaxCallers

VARIABLES
    disable_checkpointing, \* DueDiligenceWorkflow.disable_checkpointing
    checkpointer,          \* self.checkpointer: "None" or "saver"
    compiled,              \* self.compiled: "None", "plain" or "with_checkpointer"
    store,                 \* the checkpoint store: thread id -> latest snapshot
    run_pc,                \* where the current call of run() is
    runs,                  \* calls of run() so far
    thread_id,             \* the current run's thread id
    config,                \* the current run's config: "None" or a thread id
    error,                 \* the error the current run raised, "none" if none
    node,                  \* the graph node that runs next
    step,                  \* supersteps of the current run
    events,                \* node names of the events streamed by the current run
    tasks,                 \* state["tasks"]
    research_plan,         \* state["research_plan"]
    ready_for_synthesis,   \* state["ready_for_synthesis"]
    completed,             \* state["completed"]
    route_result,          \* what _route_tasks returned last in this run
    ex_pc,                 \* position inside _task_executor_node
    pending_tasks,         \* its local pending_tasks (indexes into tasks)
    batch_size,            \* its local batch_size
    i,                     \* its loop variable i
    batch,                 \* its local batch (indexes into tasks)
    calls,                 \* the worker calls of the gather: one per batch position
    batches,               \* the batches run by this call of the executor (task ids)
    raised,                \* ids of the tasks of state["tasks"] whose worker call raised
    compilations,          \* graph.compile() calls that returned: the id of self.compiled
    ec_pc,                 \* concurrent callers of _ensure_compiled: where each is
    handed,                \* the id of the compiled graph each of them was returned
    created,               \* checkpointers the factory has created and set up
    instance,              \* CheckpointerFactory._instance: a checkpointer's id, 0 for None
    given,                 \* the id of the checkpointer the factory returned to each caller
    cp_id,                 \* which checkpointer self.checkpointer is, 0 for None
    compiled_cp,           \* which checkpointer self.compiled was compiled with, 0 for none
    scopes,                \* MinimalWorkflow.run: its argument scopes
    min_pc,                \* where the generator of MinimalWorkflow.run is suspended
    min_i,                 \* its loop position in scopes (1-based)
    min_events,            \* the events it has yielded
    min_results,           \* the keys of its local results
    failed_logins,         \* SecurityMonitor.rate_windows["failed_logins"]
    alerts,                \* SecurityMonitor.alerts: type and user of each alert
    login_log,             \* every failed login checked so far: user and time
    now,                   \* datetime.now(), in ticks
    monitoring_active      \* SecurityMonitor.monitoring_active

vars == <<disable_checkpointing, checkpointer, compiled, store, run_pc, runs,
          thread_id, config, error, node, step, events, tasks, research_plan,
          ready_for_synthesis, completed, route_result, ex_pc,
          pending_tasks, batch_size, i, batch, calls, batches, raised,
          compilations, ec_pc, handed, created, instance, given, cp_id,
          compiled_cp, scopes, min_pc, min_i, min_events, min_results,
          failed_logins, alerts, login_log, now, monitoring_active>>

wfVars == <<disable_checkpointing, checkpointer, compiled>>
stateVars == <<tasks, research_plan, ready_for_synthesis, completed>>
exVars == <<ex_pc, pending_tasks, batch_size, i, batch, calls, batches>>
ccVars == <<compilations, ec_pc, handed, created, instance, given, cp_id,
           compiled_cp>>
minVars == <<scopes, min_pc, min_i, min_events, min_results>>
monVars == <<failed_logins, alerts, login_log, now, monitoring_active>>
\* the state of the due diligence workflow, its executor and its compilation
ddVars == <<wfVars, ccVars, store, run_pc, runs, thread_id, config, error,
            node, step, events, stateVars, route_result, exVars, raised>>

\* no call of MinimalWorkflow.run has been made
MinIdle ==
    /\ scopes = <<>>
    /\ min_pc = "none"
    /\ min_i = 0
    /\ min_events = <<>>
    /\ min_results = {}

\* SecurityMonitor.__init__: empty windows and no alert
MonIdle ==
    /\ failed_logins = <<>>
    /\ alerts = <<>>
    /\ login_log = <<>>
    /\ now = 0
    /\ monitoring_active = FALSE

\* ----------------------------------------------------------------- helpers
Min(a, b) == IF a < b THEN a ELSE b

Range(s) == {s[k] : k \in DOMAIN s}

\* a ResearchTask; results = 0 is the empty default, n > 0 the payload of the
\* worker call made for task id n
ResearchTask(id, agent, priority) ==
    [id |-> id, status |-> PENDING, assigned_agent |-> agent,
     priority |-> priority, results |-> 0]

\* [t for t in state["tasks"] if t.status == TaskStatus.PENDING], as indexes
RECURSIVE PendingFrom(_, _)
PendingFrom(ts, k) ==
    IF k > Len(ts) THEN <<>>
    ELSE IF ts[k].status = PENDING THEN <<k>> \o PendingFrom(ts, k + 1)
    ELSE PendingFrom(ts, k + 1)

\* mutant of PendingIndexes: FAILED tasks are taken up again
PendingOrFailed(ts) ==
    PendingFrom([k \in DOMAIN ts |->
                   IF ts[k].status = FAILED
                   THEN [ts[k] EXCEPT !.status = PENDING] ELSE ts[k]], 1)

PendingIndexes(ts) == PendingFrom(ts, 1)

\* mutant of route_tasks: only the head of the list is looked at
RouteFirstOnly(ts) ==
    IF Len(ts) > 0 /\ ts[1].status = PENDING THEN ts[1].assigned_agent
    ELSE "complete"

\* mutant of route_tasks: the PENDING task of highest priority is taken
RouteByPriority(ts) ==
    LET pend == {k \in DOMAIN ts : ts[k].status = PENDING}
    IN IF pend = {} THEN "complete"
       ELSE LET top == {k \in pend : \A j \in pend : ts[j].priority <= ts[k].priority}
            IN ts[CHOOSE k \in top : \A j \in top : k <= j].assigned_agent

\* _route_tasks: the first PENDING task's assigned_agent, else "complete"
RECURSIVE RouteFrom(_, _)
RouteFrom(ts, k) ==
    IF k > Len(ts) THEN "complete"
    ELSE IF ts[k].status = PENDING THEN ts[k].assigned_agent
    ELSE RouteFrom(ts, k + 1)

route_tasks(ts) == RouteFrom(ts, 1)

\* mutant of StateAfterRoute: routing claims the task it routes to
StateAfterRouteClaims(ts) ==
    IF PendingIndexes(ts) = <<>> THEN ts
    ELSE [ts EXCEPT ![Head(PendingIndexes(ts))].status = IN_PROGRESS]

\* the task list _route_tasks leaves behind: the function reads
\* state["tasks"] and assigns nothing
StateAfterRoute(ts) == ts


\* mutant of execute_single_task: an unknown name falls through to a worker
execute_single_task_default(agent, outcome) ==
    IF outcome = "return" THEN "result" ELSE "None"

\* mutant of execute_single_task: no try/except around the worker call
execute_single_task_uncaught(agent, outcome) ==
    IF agent \in RegisteredAgents
    THEN IF outcome = "return" THEN "result" ELSE "exception"
    ELSE "None"

\* the worker registry of _execute_single_task, seen from the gather: "result"
\* when the worker returned its dict, "None" when the name is unknown or the
\* worker raised an Exception (caught and printed)
execute_single_task(agent, outcome) ==
    IF agent \in RegisteredAgents
    THEN IF outcome = "return" THEN "result" ELSE "None"
    ELSE "None"

\* mutant of LastBatch: the node returns after its first batch
LastBatchAlways(from, size, pend) == TRUE

\* for i in range(0, len(pending_tasks), batch_size): the round that starts
\* at offset from is the last one of the loop
LastBatch(from, size, pend) == from + size >= Len(pend)

\* mutant of BatchSlice: the slice is one task too long
BatchSliceWide(pend, from, size) ==
    SubSeq(pend, from + 1, Min(from + size + 1, Len(pend)))

\* batch = pending_tasks[i:i+batch_size]
BatchSlice(pend, from, size) ==
    SubSeq(pend, from + 1, Min(from + size, Len(pend)))

\* mutant of MarkInProgress: the first task of the batch is skipped
MarkTail(ts, b) ==
    [k \in DOMAIN ts |->
        IF k \in Range(Tail(b)) THEN [ts[k] EXCEPT !.status = IN_PROGRESS]
        ELSE ts[k]]

\* mutant of MarkInProgress: the batch is dispatched unmarked
MarkNothing(ts, b) == ts

\* for task in batch: task.status = TaskStatus.IN_PROGRESS
MarkInProgress(ts, b) ==
    [k \in DOMAIN ts |->
        IF k \in Range(b) THEN [ts[k] EXCEPT !.status = IN_PROGRESS] ELSE ts[k]]

\* mutant of GatherDone: the wait gives up on a call that will not return
GatherTimesOut(cs) == \A k \in DOMAIN cs : cs[k].st # "running"

\* mutant of GatherDone: the await ends with the first coroutine that ends
GatherFirstDone(cs) == \E k \in DOMAIN cs : cs[k].st \notin {"running", "hung"}

\* await asyncio.gather(...): the await ends when every coroutine has ended;
\* no timeout is passed, so it waits for a call that is "running" and for
\* one that is "hung" (its worker will never return) alike
GatherDone(cs) == \A k \in DOMAIN cs : cs[k].st \notin {"running", "hung"}

\* mutant of ZipTask: the results are zipped onto the batch back to front
ZipReversed(b, pos) == b[Len(b) + 1 - pos]

\* the task a result of the gather is zipped with: zip(batch, results)
ZipTask(b, pos) == b[pos]

\* mutant of UpdateTaskResults: a task without result is put back to PENDING
UpdateTaskResultsRetry(ts, b, cs) ==
    [k \in DOMAIN ts |->
        IF \E pos \in DOMAIN b : ZipTask(b, pos) = k
        THEN LET pos == CHOOSE q \in DOMAIN b : ZipTask(b, q) = k
             IN IF cs[pos].st = "result"
                THEN [ts[k] EXCEPT !.results = cs[pos].payload,
                                   !.status = COMPLETED]
                ELSE [ts[k] EXCEPT !.status = PENDING]
        ELSE ts[k]]

\* the "Update task results" loop over zip(batch, results)
UpdateTaskResults(ts, b, cs) ==
    [k \in DOMAIN ts |->
        IF \E pos \in DOMAIN b : ZipTask(b, pos) = k
        THEN LET pos == CHOOSE q \in DOMAIN b : ZipTask(b, q) = k
             IN IF cs[pos].st = "result"
                THEN [ts[k] EXCEPT !.results = cs[pos].payload,
                                   !.status = COMPLETED]
                ELSE [ts[k] EXCEPT !.status = FAILED]
        ELSE ts[k]]

\* the mapping of add_conditional_edges("task_executor", _route_tasks, {...})
RouteTarget(r) ==
    IF r \in RegisteredAgents THEN r
    ELSE IF r = "complete" THEN "supervisor"
    ELSE "unroutable"

\* the node the fixed and conditional edges lead to after node n
NextNode(n, ts) ==
    CASE n = "supervisor" -> "planner"
      [] n = "planner" -> "task_executor"
      [] n = "task_executor" -> RouteTarget(route_tasks(ts))
      [] OTHER -> "task_executor"

\* the snapshot of the workflow state a checkpoint holds
Snapshot(ts, plan, ready, done) ==
    [tasks |-> ts, research_plan |-> plan, ready_for_synthesis |-> ready,
     completed |-> done]

\* astream(input) on a thread: every channel of DueDiligenceState that the
\* model keeps is a last-value channel, so each key of the input overwrites
\* what the thread's checkpoint held
MergeInput(loaded, input) ==
    [tasks |-> input.tasks, research_plan |-> input.research_plan,
     ready_for_synthesis |-> input.ready_for_synthesis,
     completed |-> input.completed]

\* the run streams with persistence: a checkpointer compiled in and a config
Persisting == compiled = "with_checkpointer" /\ config # "None"

\* config of run(): set only when self.checkpointer is not None
RunConfig(cp, t) == IF cp # "None" THEN t ELSE "None"

\* mutant of ensure_compiled: the checkpointer is kept but not compiled in
\* CheckpointerFactory.get_checkpointer, called when n checkpointers exist:
\* seen is the _instance its test saw and inst the _instance when
\* _create_checkpointer is over; with seen = None a checkpointer is created
\* and set up (outcome "saver") and assigned to _instance, whatever inst is
get_checkpointer(inst, seen, n, outcome) ==
    IF seen # 0 THEN [instance |-> seen, created |-> n, got |-> seen]
    ELSE IF outcome = "saver"
    THEN [instance |-> n + 1, created |-> n + 1, got |-> n + 1]
    ELSE [instance |-> inst, created |-> n, got |-> 0]

\* mutant of ensure_compiled: the fallback keeps self.checkpointer
ensure_compiled_keeps(comp, cp, disabled, factory, compile) ==
    IF comp # "None" THEN [compiled |-> comp, checkpointer |-> cp]
    ELSE IF disabled THEN [compiled |-> "plain", checkpointer |-> "None"]
    ELSE LET got_cp == IF cp = "None" THEN factory ELSE cp
         IN IF got_cp = "raise" THEN [compiled |-> "plain", checkpointer |-> "None"]
            ELSE IF got_cp # "None" /\ compile = "raise"
            THEN [compiled |-> "plain", checkpointer |-> got_cp]
            ELSE IF got_cp # "None"
            THEN [compiled |-> "with_checkpointer", checkpointer |-> got_cp]
            ELSE [compiled |-> "plain", checkpointer |-> "None"]

ensure_compiled_forgets(comp, cp, disabled, factory, compile) ==
    IF comp # "None" THEN [compiled |-> comp, checkpointer |-> cp]
    ELSE IF disabled THEN [compiled |-> "plain", checkpointer |-> "None"]
    ELSE LET got == IF cp = "None" THEN factory ELSE cp
         IN IF got = "raise" \/ got = "None" \/ compile = "raise"
            THEN [compiled |-> "plain", checkpointer |-> "None"]
            ELSE [compiled |-> "plain", checkpointer |-> got]

\* _ensure_compiled: the (compiled, checkpointer) it leaves behind, given what
\* the checkpointer factory and graph.compile(checkpointer=...) do
ensure_compiled(comp, cp, disabled, factory, compile) ==
    IF comp # "None" THEN [compiled |-> comp, checkpointer |-> cp]
    ELSE IF disabled THEN [compiled |-> "plain", checkpointer |-> "None"]
    ELSE LET got == IF cp = "None" THEN factory ELSE cp
         IN IF got = "raise" \/ (got # "None" /\ compile = "raise")
            THEN [compiled |-> "plain", checkpointer |-> "None"]
            ELSE IF got # "None"
            THEN [compiled |-> "with_checkpointer", checkpointer |-> got]
            ELSE [compiled |-> "plain", checkpointer |-> "None"]

\* id of the k-th task created by the planner call of superstep s of run r
\* (a uuid4: an id no other task of the process has)
NewTaskId(r, s, k) == (r * (RecursionLimit + 1) + s) * (MaxTasks + 1) + k

\* ------------------------------------------------------------------- Init
Init ==
    /\ disable_checkpointing \in BOOLEAN
    /\ checkpointer = "None"
    /\ compiled = "None"
    /\ store = [t \in ThreadIds |-> NoCheckpoint]
    /\ run_pc = "idle"
    /\ runs = 0
    /\ thread_id = "none"
    /\ config = "None"
    /\ error = "none"
    /\ node = "none"
    /\ step = 0
    /\ events = <<>>
    /\ tasks = <<>>
    /\ research_plan = ""
    /\ ready_for_synthesis = FALSE
    /\ completed = FALSE
    /\ route_result = "none"
    /\ ex_pc = "idle"
    /\ pending_tasks = <<>>
    /\ batch_size = 0
    /\ i = 0
    /\ batch = <<>>
    /\ calls = <<>>
    /\ batches = <<>>
    /\ raised = {}
    /\ compilations = 0
    /\ ec_pc = [c \in Callers |-> "idle"]
    /\ handed = [c \in Callers |-> 0]
    /\ created = 0
    /\ instance = 0
    /\ given = [c \in Callers |-> 0]
    /\ cp_id = 0
    /\ compiled_cp = 0
    /\ MinIdle
    /\ MonIdle

\* ------------------------------------------------------------ run(), setup
\* run(..., thread_id=t) up to the await of _ensure_compiled: config and
\* initial_state
RunCall(t) ==
    /\ run_pc \in {"idle", "halted", "closed"}
    /\ runs < MaxRuns
    /\ runs' = runs + 1
    /\ thread_id' = t
    /\ config' = RunConfig(checkpointer, t)
    /\ tasks' = <<>>
    /\ research_plan' = ""
    /\ ready_for_synthesis' = FALSE
    /\ completed' = FALSE
    /\ error' = "none"
    /\ node' = "none"
    /\ step' = 0
    /\ events' = <<>>
    /\ route_result' = "none"
    /\ raised' = {}
    /\ run_pc' = "config"
    /\ ex_pc' = "idle"
    /\ pending_tasks' = <<>>
    /\ batch_size' = 0
    /\ i' = 0
    /\ batch' = <<>>
    /\ calls' = <<>>
    /\ batches' = <<>>
    /\ UNCHANGED <<minVars, monVars, wfVars, ccVars, store>>

\* compiled_graph = await self._ensure_compiled()
EnsureCompiled(factory, compile) ==
    /\ run_pc = "config"
    /\ LET r == ensure_compiled(compiled, checkpointer, disable_checkpointing,
                                factory, compile)
       IN /\ compiled' = r.compiled
          /\ checkpointer' = r.checkpointer
    /\ compilations' = IF compiled = "None" THEN compilations + 1
                       ELSE compilations
    /\ IF compiled = "None" /\ ~disable_checkpointing
       THEN LET r == ensure_compiled(compiled, checkpointer,
                                     disable_checkpointing, factory, compile)
                f == IF checkpointer = "None"
                     THEN get_checkpointer(instance, instance, created, factory)
                     ELSE [instance |-> instance, created |-> created,
                           got |-> cp_id]
            IN /\ instance' = f.instance
               /\ created' = f.created
               /\ cp_id' = IF r.checkpointer = "None" THEN 0 ELSE f.got
               /\ compiled_cp' = IF r.compiled = "with_checkpointer"
                                 THEN f.got ELSE 0
       ELSE UNCHANGED <<instance, created, cp_id, compiled_cp>>
    /\ run_pc' = "compiled"
    /\ UNCHANGED <<minVars, monVars, ec_pc, handed, given, disable_checkpointing, store, runs, thread_id, config, error,
                   node, step, events, stateVars, route_result, exVars,
                   raised>>

\* compiled_graph.astream(initial_state[, config]): a graph with a
\* checkpointer refuses to start without a thread id; otherwise the input is
\* written over the thread's channels, checkpointed, and START leads to the
\* supervisor
StartStream ==
    /\ run_pc = "compiled"
    /\ IF compiled = "with_checkpointer" /\ config = "None"
       THEN /\ run_pc' = "halted"
            /\ error' = "ValueError"
            /\ UNCHANGED <<store, node, stateVars>>
       ELSE LET loaded == IF Persisting THEN store[config] ELSE NoCheckpoint
                merged == MergeInput(loaded,
                              Snapshot(tasks, research_plan,
                                       ready_for_synthesis, completed))
            IN /\ tasks' = merged.tasks
               /\ research_plan' = merged.research_plan
               /\ ready_for_synthesis' = merged.ready_for_synthesis
               /\ completed' = merged.completed
               /\ store' = IF Persisting
                           THEN [store EXCEPT ![config] = merged]
                           ELSE store
               /\ node' = "supervisor"
               /\ run_pc' = "streaming"
               /\ error' = "none"
    /\ UNCHANGED <<minVars, monVars, wfVars, ccVars, runs, thread_id, config, step, events, 
                   route_result, exVars, raised>>

\* the end of a superstep of node n that left the state (ts, plan, ready,
\* done): the state is merged, checkpointed when the run persists, the step
\* event {n: delta} is streamed and the edges choose the next node
Commit(n, ts, plan, ready, done) ==
    /\ tasks' = ts
    /\ research_plan' = plan
    /\ ready_for_synthesis' = ready
    /\ completed' = done
    /\ store' = IF Persisting
                THEN [store EXCEPT ![config] = Snapshot(ts, plan, ready, done)]
                ELSE store
    /\ events' = Append(events, n)
    /\ step' = step + 1
    /\ node' = NextNode(n, ts)
    /\ route_result' = IF n = "task_executor" THEN route_tasks(ts)
                       ELSE route_result

CanStep == run_pc = "streaming" /\ ex_pc = "idle" /\ step < RecursionLimit

\* the supervisor node, and the task-agent nodes the routing map names: agents
\* built by create_agent(), which leave the modelled channels alone
AgentNode ==
    /\ CanStep
    /\ node \in {"supervisor"} \cup RegisteredAgents
    /\ Commit(node, tasks, research_plan, ready_for_synthesis, completed)
    /\ UNCHANGED <<minVars, monVars, wfVars, ccVars, run_pc, runs, thread_id, config, error, 
                   exVars, raised>>

\* _planner_node: the planner's tasks replace state["tasks"]
PlannerNode(n, agents, priorities) ==
    /\ CanStep
    /\ node = "planner"
    /\ raised' = {}
    /\ Commit("planner",
              [k \in 1..n |->
                  ResearchTask(NewTaskId(runs, step, k), agents[k], priorities[k])],
              "plan", ready_for_synthesis, completed)
    /\ UNCHANGED <<minVars, monVars, wfVars, ccVars, run_pc, runs, thread_id, config, error, exVars>>

\* ------------------------------------------------- _task_executor_node
\* entry: pending_tasks; with none pending the node returns
\* {**state, "ready_for_synthesis": True}, otherwise it sets batch_size and
\* enters the for loop
ExecutorEnter ==
    /\ CanStep
    /\ node = "task_executor"
    /\ LET pend == PendingIndexes(tasks)
       IN IF pend = <<>>
          THEN /\ Commit("task_executor", tasks, research_plan, TRUE, completed)
               /\ pending_tasks' = <<>>
               /\ batch_size' = 0
               /\ i' = 0
               /\ batch' = <<>>
               /\ calls' = <<>>
               /\ batches' = <<>>
               /\ UNCHANGED ex_pc
          ELSE /\ pending_tasks' = pend
               /\ batch_size' = Min(Len(pend), BatchLimit)
               /\ i' = 0
               /\ batch' = <<>>
               /\ calls' = <<>>
               /\ batches' = <<>>
               /\ ex_pc' = "loop"
               /\ UNCHANGED <<stateVars, store, events, step, node,
                              route_result>>
    /\ UNCHANGED <<minVars, monVars, wfVars, ccVars, run_pc, runs, thread_id, config, error, 
                   raised>>

\* top of a loop round: the batch is sliced and its tasks marked IN_PROGRESS
BatchMark ==
    /\ run_pc = "streaming"
    /\ ex_pc = "loop"
    /\ LET b == BatchSlice(pending_tasks, i, batch_size)
       IN /\ batch' = b
          /\ tasks' = MarkInProgress(tasks, b)
          /\ batches' = Append(batches, [k \in DOMAIN b |-> tasks[b[k]].id])
    /\ calls' = <<>>
    /\ ex_pc' = "marked"
    /\ UNCHANGED <<minVars, monVars, wfVars, ccVars, store, run_pc, runs, thread_id, config, error, node,
                   step, events, research_plan, ready_for_synthesis, completed,
                   route_result, pending_tasks, batch_size, i, raised>>

\* asyncio.gather(*[_execute_single_task(task, state) for task in batch]):
\* every coroutine of the batch starts; one for an unknown agent name has
\* nothing to await and is done at once
BatchDispatch ==
    /\ run_pc = "streaming"
    /\ ex_pc = "marked"
    /\ calls' = [k \in DOMAIN batch |->
                    IF tasks[batch[k]].assigned_agent \in RegisteredAgents
                    THEN [st |-> "running", payload |-> tasks[batch[k]].id]
                    ELSE [st |-> execute_single_task(
                                     tasks[batch[k]].assigned_agent, "return"),
                          payload |-> tasks[batch[k]].id]]
    /\ ex_pc' = "gather"
    /\ UNCHANGED <<minVars, monVars, wfVars, ccVars, store, run_pc, runs, thread_id, config, error, node,
                   step, events, stateVars, route_result, pending_tasks,
                   batch_size, i, batch, batches, raised>>

\* one worker's execute_task ends: it returns its dict or raises
WorkerReturn(k, outcome) ==
    /\ run_pc = "streaming"
    /\ ex_pc = "gather"
    /\ k \in DOMAIN calls
    /\ calls[k].st = "running"
    /\ calls' = [calls EXCEPT ![k].st =
                    execute_single_task(tasks[batch[k]].assigned_agent, outcome)]
    /\ raised' = IF outcome = "raise" THEN raised \cup {tasks[batch[k]].id}
                 ELSE raised
    /\ UNCHANGED <<minVars, monVars, wfVars, ccVars, store, run_pc, runs, thread_id, config, error, node,
                   step, events, stateVars, route_result, ex_pc,
                   pending_tasks, batch_size, i, batch, batches>>

\* the worker awaited by call k will never return: nothing in
\* _execute_single_task or in the gather bounds the wait
WorkerHang(k) ==
    /\ run_pc = "streaming"
    /\ ex_pc = "gather"
    /\ k \in DOMAIN calls
    /\ calls[k].st = "running"
    /\ calls' = [calls EXCEPT ![k].st = "hung"]
    /\ UNCHANGED <<minVars, monVars, wfVars, ccVars, store, run_pc, runs, thread_id, config,
                   error, node, step, events, stateVars, route_result, ex_pc,
                   pending_tasks, batch_size, i, batch, batches, raised>>

\* the gather is over. An exception that escaped a coroutine leaves the gather,
\* the node and the run; otherwise the results are zipped onto the batch, and
\* after the last batch the node returns state
BatchJoin ==
    /\ run_pc = "streaming"
    /\ ex_pc = "gather"
    /\ GatherDone(calls)
    /\ IF \E k \in DOMAIN calls : calls[k].st = "exception"
       THEN /\ run_pc' = "halted"
            /\ error' = "TaskExecutionError"
            /\ ex_pc' = "idle"
            /\ UNCHANGED <<stateVars, store, events, step, node, route_result,
                           i>>
       ELSE LET ts == UpdateTaskResults(tasks, batch, calls)
            IN /\ i' = i + batch_size
               /\ IF LastBatch(i, batch_size, pending_tasks)
                  THEN /\ Commit("task_executor", ts, research_plan,
                                 ready_for_synthesis, completed)
                       /\ ex_pc' = "idle"
                  ELSE /\ tasks' = ts
                       /\ ex_pc' = "loop"
                       /\ UNCHANGED <<research_plan, ready_for_synthesis,
                                      completed, store, events, step, node,
                                      route_result>>
               /\ UNCHANGED <<run_pc, error>>
    /\ UNCHANGED <<minVars, monVars, wfVars, ccVars, runs, thread_id, config, pending_tasks,
                   batch_size, batch, calls, batches, raised>>

\* ------------------------------------------------------ how a run ends
\* the graph library stops a run that has used its supersteps
RecursionError ==
    /\ run_pc = "streaming"
    /\ ex_pc = "idle"
    /\ step >= RecursionLimit
    /\ run_pc' = "halted"
    /\ error' = "GraphRecursionError"
    /\ UNCHANGED <<minVars, monVars, wfVars, ccVars, store, runs, thread_id, config, node, step, events,
                   stateVars, route_result, exVars, raised>>

\* the caller leaves its async-for loop after an event (as the callers in
\* src/src/cli/commands/research.py and the tests do): the generator is
\* closed where it yielded
StopConsuming ==
    /\ run_pc = "streaming"
    /\ ex_pc = "idle"
    /\ Len(events) > 0
    /\ run_pc' = "closed"
    /\ UNCHANGED <<minVars, monVars, wfVars, ccVars, store, runs, thread_id, config, error, node, step,
                   events, stateVars, route_result, exVars, raised>>

Next ==
    \/ \E t \in ThreadIds : RunCall(t)
    \/ \E f \in {"saver", "None", "raise"}, c \in {"ok", "raise"} :
          EnsureCompiled(f, c)
    \/ StartStream
    \/ AgentNode
    \/ \E n \in 0..MaxTasks :
          \E agents \in [1..n -> PlanAgents], priorities \in [1..n -> PlanPriorities] :
             PlannerNode(n, agents, priorities)
    \/ ExecutorEnter
    \/ BatchMark
    \/ BatchDispatch
    \/ \E k \in 1..BatchLimit, o \in {"return", "raise"} : WorkerReturn(k, o)
    \/ \E k \in 1..BatchLimit : WorkerHang(k)
    \/ BatchJoin
    \/ RecursionError
    \/ StopConsuming

Spec == Init /\ [][Next]_vars

\* --------------------------------------------- the routing function alone
\* every task list of up to RouteMaxLen tasks, of any status, agent and
\* priority, with nothing routed yet
InitRoute ==
    /\ \E n \in 0..RouteMaxLen :
          tasks \in [1..n -> [id : 1..n, status : TaskStatus,
                              assigned_agent : RouteAgents,
                              priority : RoutePriorities, results : {0}]]
    /\ \A k \in DOMAIN tasks : tasks[k].id = k
    /\ disable_checkpointing = TRUE
    /\ checkpointer = "None"
    /\ compiled = "None"
    /\ store = [t \in ThreadIds |-> NoCheckpoint]
    /\ run_pc = "route"
    /\ runs = 0
    /\ thread_id = "none"
    /\ config = "None"
    /\ error = "none"
    /\ node = "none"
    /\ step = 0
    /\ events = <<>>
    /\ research_plan = ""
    /\ ready_for_synthesis = FALSE
    /\ completed = FALSE
    /\ route_result = "none"
    /\ ex_pc = "idle"
    /\ pending_tasks = <<>>
    /\ batch_size = 0
    /\ i = 0
    /\ batch = <<>>
    /\ calls = <<>>
    /\ batches = <<>>
    /\ raised = {}
    /\ compilations = 0
    /\ ec_pc = [c \in Callers |-> "idle"]
    /\ handed = [c \in Callers |-> 0]
    /\ created = 0
    /\ instance = 0
    /\ given = [c \in Callers |-> 0]
    /\ cp_id = 0
    /\ compiled_cp = 0
    /\ MinIdle
    /\ MonIdle

\* _route_tasks(state) is called
RouteCall ==
    /\ run_pc = "route"
    /\ route_result' = route_tasks(tasks)
    /\ tasks' = StateAfterRoute(tasks)
    /\ UNCHANGED <<minVars, monVars, wfVars, ccVars, store, run_pc, runs, thread_id, config, error, node,
                   step, events, research_plan, ready_for_synthesis, completed,
                   exVars, raised>>

\* the priority of one task is changed after the call; nothing else is
Reprioritise(k, p) ==
    /\ run_pc = "route"
    /\ route_result # "none"
    /\ k \in DOMAIN tasks
    /\ tasks[k].priority # p
    /\ tasks' = [tasks EXCEPT ![k].priority = p]
    /\ UNCHANGED <<minVars, monVars, wfVars, ccVars, store, run_pc, runs, thread_id, config, error, node,
                   step, events, research_plan, ready_for_synthesis, completed,
                   route_result, exVars, raised>>

NextRoute ==
    \/ RouteCall
    \/ \E k \in 1..RouteMaxLen, p \in RoutePriorities : Reprioritise(k, p)

SpecRoute == InitRoute /\ [][NextRoute]_vars

\* ------------------------- _ensure_compiled called by concurrent runs
\* a workflow instance just constructed, in a process whose checkpointer
\* factory has created nothing yet; no run has called _ensure_compiled
InitCompile ==
    /\ disable_checkpointing \in BOOLEAN
    /\ checkpointer = "None"
    /\ compiled = "None"
    /\ store = [t \in ThreadIds |-> NoCheckpoint]
    /\ run_pc = "compile"
    /\ runs = 0
    /\ thread_id = "none"
    /\ config = "None"
    /\ error = "none"
    /\ node = "none"
    /\ step = 0
    /\ events = <<>>
    /\ tasks = <<>>
    /\ research_plan = ""
    /\ ready_for_synthesis = FALSE
    /\ completed = FALSE
    /\ route_result = "none"
    /\ ex_pc = "idle"
    /\ pending_tasks = <<>>
    /\ batch_size = 0
    /\ i = 0
    /\ batch = <<>>
    /\ calls = <<>>
    /\ batches = <<>>
    /\ raised = {}
    /\ compilations = 0
    /\ ec_pc = [c \in Callers |-> "idle"]
    /\ handed = [c \in Callers |-> 0]
    /\ created = 0
    /\ instance = 0
    /\ given = [c \in Callers |-> 0]
    /\ cp_id = 0
    /\ compiled_cp = 0
    /\ MinIdle
    /\ MonIdle

\* caller c enters _ensure_compiled and runs to its first suspension: with
\* self.compiled set it returns it; with checkpointing disabled, or with
\* self.checkpointer set, it compiles and returns without an await; else it
\* is suspended at `await checkpointer_factory.create_checkpointer()`, past
\* the test of self.compiled
EcEnter(c, compile) ==
    /\ run_pc = "compile"
    /\ ec_pc[c] = "idle"
    /\ IF compiled # "None"
       THEN /\ ec_pc' = [ec_pc EXCEPT ![c] = "done"]
            /\ handed' = [handed EXCEPT ![c] = compilations]
            /\ UNCHANGED <<checkpointer, compiled, compilations, cp_id,
                           compiled_cp>>
       ELSE IF disable_checkpointing \/ checkpointer # "None"
       THEN LET r == ensure_compiled(compiled, checkpointer,
                                     disable_checkpointing, checkpointer,
                                     compile)
            IN /\ compiled' = r.compiled
               /\ checkpointer' = r.checkpointer
               /\ cp_id' = IF r.checkpointer = "None" THEN 0 ELSE cp_id
               /\ compiled_cp' = IF r.compiled = "with_checkpointer"
                                 THEN cp_id ELSE 0
               /\ compilations' = compilations + 1
               /\ ec_pc' = [ec_pc EXCEPT ![c] = "done"]
               /\ handed' = [handed EXCEPT ![c] = compilations + 1]
       ELSE /\ ec_pc' = [ec_pc EXCEPT ![c] = "awaiting"]
            /\ UNCHANGED <<checkpointer, compiled, compilations, handed,
                           cp_id, compiled_cp>>
    /\ UNCHANGED <<created, instance, given>>
    /\ UNCHANGED <<minVars, monVars, disable_checkpointing, store, run_pc,
                   runs, thread_id, config, error, node, step, events,
                   stateVars, route_result, exVars, raised>>

\* the factory's await is over for caller c: it goes on from line 43 with
\* what the factory gave, without looking at self.compiled again, compiles
\* and assigns self.compiled
EcResume(c, factory, compile) ==
    /\ run_pc = "compile"
    /\ ec_pc[c] = "awaiting"
    /\ LET r == ensure_compiled("None", "None", FALSE, factory, compile)
           f == get_checkpointer(instance, 0, created, factory)
       IN /\ compiled' = r.compiled
          /\ checkpointer' = r.checkpointer
          /\ instance' = f.instance
          /\ created' = f.created
          /\ given' = [given EXCEPT ![c] = f.got]
          /\ cp_id' = IF r.checkpointer = "None" THEN 0 ELSE f.got
          /\ compiled_cp' = IF r.compiled = "with_checkpointer"
                            THEN f.got ELSE 0
    /\ compilations' = compilations + 1
    /\ ec_pc' = [ec_pc EXCEPT ![c] = "done"]
    /\ handed' = [handed EXCEPT ![c] = compilations + 1]
    /\ UNCHANGED <<minVars, monVars, disable_checkpointing, store, run_pc,
                   runs, thread_id, config, error, node, step, events,
                   stateVars, route_result, exVars, raised>>

NextCompile ==
    \/ \E c \in Callers, compile \in {"ok", "raise"} : EcEnter(c, compile)
    \/ \E c \in Callers, factory \in {"saver", "None", "raise"},
          compile \in {"ok", "raise"} : EcResume(c, factory, compile)

SpecCompile == InitCompile /\ [][NextCompile]_vars

\* ----------------------------------------- the executor node on its own
\* _task_executor_node is entered, in a run that streams without
\* persistence, with any task list of up to ExecMaxLen tasks of any status;
\* a COMPLETED task holds the payload of its own call, any other none
InitExec ==
    /\ \E n \in 0..ExecMaxLen : \E st \in [1..n -> TaskStatus] :
          tasks = [k \in 1..n |->
                     [ResearchTask(k, "research", 5) EXCEPT
                         !.status = st[k],
                         !.results = IF st[k] = COMPLETED THEN k ELSE 0]]
    /\ disable_checkpointing = TRUE
    /\ checkpointer = "None"
    /\ compiled = "plain"
    /\ store = [t \in ThreadIds |-> NoCheckpoint]
    /\ run_pc = "streaming"
    /\ runs = 1
    /\ thread_id \in ThreadIds
    /\ config = "None"
    /\ error = "none"
    /\ node = "task_executor"
    /\ step = 2
    /\ events = <<"supervisor", "planner">>
    /\ research_plan = ""
    /\ ready_for_synthesis = FALSE
    /\ completed = FALSE
    /\ route_result = "none"
    /\ ex_pc = "idle"
    /\ pending_tasks = <<>>
    /\ batch_size = 0
    /\ i = 0
    /\ batch = <<>>
    /\ calls = <<>>
    /\ batches = <<>>
    /\ raised = {}
    /\ compilations = 1
    /\ ec_pc = [c \in Callers |-> "idle"]
    /\ handed = [c \in Callers |-> 0]
    /\ created = 0
    /\ instance = 0
    /\ given = [c \in Callers |-> 0]
    /\ cp_id = 0
    /\ compiled_cp = 0
    /\ MinIdle
    /\ MonIdle

NextExec ==
    \/ ExecutorEnter
    \/ BatchMark
    \/ BatchDispatch
    \/ \E k \in 1..BatchLimit, o \in {"return", "raise"} : WorkerReturn(k, o)
    \/ \E k \in 1..BatchLimit : WorkerHang(k)
    \/ BatchJoin

SpecExec == InitExec /\ [][NextExec]_vars

\* ------------------------------------------------- MinimalWorkflow.run
\* the keys of MinimalWorkflow.agents
MinAgents == {"financial", "legal", "osint", "verification", "research"}

\* scope names a caller passes: registered ones and one that is not
ScopeNames == {"financial", "research", "news"}

\* an event of the stream: its "type" and, for agent events, its "agent"
MinEvent(type, agent) == [type |-> type, agent |-> agent]

\* mutant of NextAgent: the loop is left at the first unknown scope
RECURSIVE NextAgentBreaks(_, _)
NextAgentBreaks(sc, k) ==
    IF k > Len(sc) THEN k
    ELSE IF sc[k] \in MinAgents THEN k
    ELSE Len(sc) + 1

\* for i, scope in enumerate(scopes): if scope in self.agents: the
\* position of the next scope, from k on, that names an agent; Len + 1 when
\* the loop runs out
RECURSIVE NextAgent(_, _)
NextAgent(sc, k) ==
    IF k > Len(sc) THEN k
    ELSE IF sc[k] \in MinAgents THEN k
    ELSE NextAgent(sc, k + 1)

\* a due diligence workflow that was built and never run
DdIdle ==
    /\ disable_checkpointing = TRUE
    /\ checkpointer = "None"
    /\ compiled = "None"
    /\ store = [t \in ThreadIds |-> NoCheckpoint]
    /\ run_pc = "idle"
    /\ runs = 0
    /\ thread_id = "none"
    /\ config = "None"
    /\ error = "none"
    /\ node = "none"
    /\ step = 0
    /\ events = <<>>
    /\ tasks = <<>>
    /\ research_plan = ""
    /\ ready_for_synthesis = FALSE
    /\ completed = FALSE
    /\ route_result = "none"
    /\ ex_pc = "idle"
    /\ pending_tasks = <<>>
    /\ batch_size = 0
    /\ i = 0
    /\ batch = <<>>
    /\ calls = <<>>
    /\ batches = <<>>
    /\ raised = {}
    /\ compilations = 0
    /\ ec_pc = [c \in Callers |-> "idle"]
    /\ handed = [c \in Callers |-> 0]
    /\ created = 0
    /\ instance = 0
    /\ given = [c \in Callers |-> 0]
    /\ cp_id = 0
    /\ compiled_cp = 0

\* run(entity_name, entity_type, scopes) is called with any list of up to
\* MaxScopes scopes: the generator is created and has not run yet
InitMinimal ==
    /\ \E n \in 0..MaxScopes : scopes \in [1..n -> ScopeNames]
    /\ min_pc = "created"
    /\ min_i = 0
    /\ min_events = <<>>
    /\ min_results = {}
    /\ MonIdle
    /\ DdIdle

\* the generator runs to its first yield: the initialization event
MinInitialization ==
    /\ min_pc = "created"
    /\ min_events' = Append(min_events, MinEvent("initialization", "-"))
    /\ min_pc' = "initialization"
    /\ UNCHANGED <<scopes, min_i, min_results, monVars, ddVars>>

\* resumed after the initialization event: the planning event
MinPlanning ==
    /\ min_pc = "initialization"
    /\ min_events' = Append(min_events, MinEvent("planning", "-"))
    /\ min_pc' = "planning"
    /\ UNCHANGED <<scopes, min_i, min_results, monVars, ddVars>>

\* resumed after the planning event or after an agent's last event: the
\* loop goes on to the next scope that names an agent and yields its
\* agent_start, or runs out and the synthesis event is yielded
MinLoop ==
    /\ min_pc \in {"planning", "agent_done"}
    /\ LET k == NextAgent(scopes, min_i + 1)
       IN /\ min_i' = k
          /\ IF k <= Len(scopes)
             THEN /\ min_events' =
                        Append(min_events, MinEvent("agent_start", scopes[k]))
                  /\ min_pc' = "agent_start"
             ELSE /\ min_events' =
                        Append(min_events, MinEvent("synthesis", "-"))
                  /\ min_pc' = "synthesis"
    /\ UNCHANGED <<scopes, min_results, monVars, ddVars>>

\* resumed after agent_start: agent.analyze is awaited inside the try; its
\* result is stored and agent_complete yielded, or its Exception is caught
\* and agent_error yielded
MinAnalyze(outcome) ==
    /\ min_pc = "agent_start"
    /\ IF outcome = "return"
       THEN /\ min_results' = min_results \cup {scopes[min_i]}
            /\ min_events' = Append(min_events,
                                    MinEvent("agent_complete", scopes[min_i]))
       ELSE /\ min_results' = min_results
            /\ min_events' = Append(min_events,
                                    MinEvent("agent_error", scopes[min_i]))
    /\ min_pc' = "agent_done"
    /\ UNCHANGED <<scopes, min_i, monVars, ddVars>>

\* resumed after the synthesis event: the metrics and the summary are
\* computed from results and the completion event is yielded
MinCompletion ==
    /\ min_pc = "synthesis"
    /\ min_events' = Append(min_events, MinEvent("completion", "-"))
    /\ min_pc' = "completion"
    /\ UNCHANGED <<scopes, min_i, min_results, monVars, ddVars>>

NextMinimal ==
    \/ MinInitialization
    \/ MinPlanning
    \/ MinLoop
    \/ \E o \in {"return", "raise"} : MinAnalyze(o)
    \/ MinCompletion

SpecMinimal == InitMinimal /\ [][NextMinimal]_vars

\* ------------------------------------------------------ SecurityMonitor
MonUsers == {"u1", "u2"}

\* deque(maxlen=n).append(x): the oldest entry is dropped from a full deque
DequeAppend(d, x, n) ==
    IF Len(d) >= n THEN Append(Tail(d), x) ELSE Append(d, x)

\* while window and window[0]["timestamp"] < cutoff_time: window.popleft()
RECURSIVE PopOld(_, _)
PopOld(window, cutoff_time) ==
    IF window # <<>> /\ Head(window).timestamp < cutoff_time
    THEN PopOld(Tail(window), cutoff_time)
    ELSE window

\* the entries of a window that count for user_id: same user, and
\* timestamp > datetime.now() - timedelta(hours=1)
RecentFailures(window, user_id) ==
    {k \in DOMAIN window : /\ window[k].user_id = user_id
                           /\ window[k].timestamp > now - HourTicks}

\* a SecurityMonitor was constructed; nothing was reported to it
InitMonitor ==
    /\ MonIdle
    /\ MinIdle
    /\ DdIdle

\* the clock moves on
Tick ==
    /\ now < MaxTime
    /\ now' = now + 1
    /\ UNCHANGED <<failed_logins, alerts, login_log, monitoring_active,
                   minVars, ddVars>>

\* start_monitoring() and stop_monitoring()
StartMonitoring ==
    /\ ~monitoring_active
    /\ monitoring_active' = TRUE
    /\ UNCHANGED <<failed_logins, alerts, login_log, now, minVars, ddVars>>

StopMonitoring ==
    /\ monitoring_active
    /\ monitoring_active' = FALSE
    /\ UNCHANGED <<failed_logins, alerts, login_log, now, minVars, ddVars>>

\* one round of the background loop: entries older than an hour are
\* popped from the left of the window
MonitorFailedAttempts ==
    /\ monitoring_active
    /\ failed_logins' = PopOld(failed_logins, now - HourTicks)
    /\ UNCHANGED <<alerts, login_log, now, monitoring_active, minVars, ddVars>>

\* check_security_event(AUTHENTICATION_FAILED, user_id, success=False):
\* _check_failed_login_abuse appends the failure to the one window all
\* users share, counts this user's entries of the last hour in the window,
\* and returns an alert when they reach the threshold; _handle_alert
\* appends it to alerts. login_log keeps every failure reported
CheckFailedLogin(user_id) ==
    /\ Len(login_log) < MaxLoginEvents
    /\ LET entry == [timestamp |-> now, user_id |-> user_id]
           window == DequeAppend(failed_logins, entry, failed_logins_maxlen)
           recent_failures == RecentFailures(window, user_id)
       IN /\ failed_logins' = window
          /\ login_log' = Append(login_log, entry)
          /\ alerts' =
                IF Cardinality(recent_failures) >= max_failed_logins_per_hour
                THEN DequeAppend(alerts,
                                 [alert_type |-> "authentication_abuse",
                                  user_id |-> user_id],
                                 alerts_maxlen)
                ELSE alerts
    /\ UNCHANGED <<now, monitoring_active, minVars, ddVars>>

NextMonitor ==
    \/ Tick
    \/ StartMonitoring
    \/ StopMonitoring
    \/ MonitorFailedAttempts
    \/ \E u \in MonUsers : CheckFailedLogin(u)

SpecMonitor == InitMonitor /\ [][NextMonitor]_vars

\* ================================================================ claims
Last(s) == s[Len(s)]

\* the run is between two supersteps, at least one of which is over
AtStepEnd == run_pc = "streaming" /\ ex_pc = "idle" /\ Len(events) > 0

PendingIds(ts) == {ts[k].id : k \in {j \in DOMAIN ts : ts[j].status = PENDING}}
CompletedIds(ts) == {ts[k].id : k \in {j \in DOMAIN ts : ts[j].status = COMPLETED}}

\* C1: a task whose worker call raised is Failed once its batch is over (and
\* InProgress until then), and no run is ever halted by a worker's exception:
\* the exception stays inside the executor.
C1_WorkerExceptionContained ==
    /\ error # "TaskExecutionError"
    /\ \A k \in DOMAIN tasks :
          tasks[k].id \in raised =>
             IF ex_pc = "gather" /\ k \in Range(batch)
             THEN tasks[k].status = IN_PROGRESS
             ELSE tasks[k].status = FAILED

\* C1 witness: a worker raised, its task is Failed, the executor has returned
\* and the run goes on to the next node.
C1_Witness ==
    /\ AtStepEnd
    /\ Last(events) = "task_executor"
    /\ node = "supervisor"
    /\ \E k \in DOMAIN tasks : tasks[k].id \in raised /\ tasks[k].status = FAILED

AllowedTransition ==
    {<<PENDING, IN_PROGRESS>>, <<IN_PROGRESS, COMPLETED>>, <<IN_PROGRESS, FAILED>>}

\* C3: in every step, a task that stays in the state keeps its status or moves
\* Pending -> InProgress, InProgress -> Completed or InProgress -> Failed;
\* nothing else, so never back to Pending and never on from Completed or Failed.
C3_StatusMonotonic ==
    [][\A a \in Range(tasks), b \in Range(tasks') :
          (a.id = b.id /\ a.status # b.status) =>
             <<a.status, b.status>> \in AllowedTransition]_vars

\* C3 witness: a four-task plan has gone through both batches, and tasks ended
\* Completed as well as Failed.
C3_Witness ==
    /\ AtStepEnd
    /\ Len(tasks) = 4
    /\ \E a, b \in Range(tasks) : a.status = COMPLETED /\ b.status = FAILED
    /\ \A a \in Range(tasks) : a.status \in {COMPLETED, FAILED}

\* C4: the worker calls in flight are for pairwise different tasks, and a call
\* is in flight only while its batch's gather is awaited and its task is
\* InProgress: a batch is over before the next one starts.
C4_AtMostOnceDispatch ==
    \A p \in DOMAIN calls :
       calls[p].st = "running" =>
          /\ ex_pc = "gather"
          /\ p \in DOMAIN batch
          /\ tasks[batch[p]].id = calls[p].payload
          /\ tasks[batch[p]].status = IN_PROGRESS
          /\ \A q \in DOMAIN calls :
                (q # p /\ calls[q].st = "running") =>
                   calls[q].payload # calls[p].payload

\* C4 witness: the second batch of an executor call has a worker call in
\* flight while a sibling call of the first batch has long returned.
C4_Witness ==
    /\ ex_pc = "gather"
    /\ Len(batches) = 2
    /\ \E p \in DOMAIN calls : calls[p].st = "running"
    /\ \E a \in Range(tasks) : a.status = COMPLETED

CeilDiv(a, b) == (a + b - 1) \div b

\* the batches in which task id x was put
BatchesOf(x) ==
    {<<b, p>> \in (DOMAIN batches) \X (1..BatchLimit) :
        p \in DOMAIN batches[b] /\ batches[b][p] = x}

\* C5: with P tasks pending at entry and batch size B, no batch is larger than
\* B and never more than ceil(P/B) batches are started; when the executor has
\* returned exactly ceil(P/B) batches were run and every one of the P tasks
\* was in exactly one of them.
C5_BatchCount ==
    pending_tasks # <<>> =>
       /\ \A b \in DOMAIN batches :
             Len(batches[b]) <= batch_size /\ Len(batches[b]) >= 1
       /\ Len(batches) <= CeilDiv(Len(pending_tasks), batch_size)
       /\ (AtStepEnd /\ Last(events) = "task_executor") =>
             /\ Len(batches) = CeilDiv(Len(pending_tasks), batch_size)
             /\ \A k \in Range(pending_tasks) :
                   Cardinality(BatchesOf(tasks[k].id)) = 1

\* C5 witness: four pending tasks were run as a batch of three and a batch of
\* one.
C5_Witness ==
    /\ AtStepEnd
    /\ Last(events) = "task_executor"
    /\ Len(pending_tasks) = 4
    /\ batch_size = 3
    /\ Len(batches) = 2
    /\ Len(batches[1]) = 3
    /\ Len(batches[2]) = 1

\* the first PENDING task of the list, in list order
FirstPending(ts) ==
    CHOOSE k \in DOMAIN ts :
       /\ ts[k].status = PENDING
       /\ \A j \in 1..(k - 1) : ts[j].status # PENDING

\* C2: what the routing function returned is the assigned worker of a Pending
\* task if and only if some task is Pending, and is "complete" otherwise; on
\* the empty list it is "complete".
C2_RouteIffPending ==
    route_result # "none" =>
       LET pend == {k \in DOMAIN tasks : tasks[k].status = PENDING}
       IN /\ (route_result \in {tasks[k].assigned_agent : k \in pend}) <=> (pend # {})
          /\ (route_result = "complete") <=> (pend = {})
          /\ tasks = <<>> => route_result = "complete"

\* C2 witness: the routing function returned a worker name for a list whose
\* only Pending task is its last one.
C2_Witness ==
    /\ run_pc = "route"
    /\ Len(tasks) = 3
    /\ tasks[1].status = COMPLETED
    /\ tasks[2].status = FAILED
    /\ tasks[3].status = PENDING
    /\ route_result = tasks[3].assigned_agent

\* C10: with a task Pending, what the routing function returned is the
\* assigned worker of the first Pending task in list order, whatever the
\* priorities of the tasks are or become.
C10_RouteFirstPendingInListOrder ==
    (route_result # "none" /\ \E k \in DOMAIN tasks : tasks[k].status = PENDING) =>
       route_result = tasks[FirstPending(tasks)].assigned_agent

\* C10 witness: two Pending tasks of different workers, the later one of
\* higher priority, and the routing function returned the earlier one's worker.
C10_Witness ==
    /\ run_pc = "route"
    /\ Len(tasks) >= 2
    /\ tasks[1].status = PENDING
    /\ tasks[2].status = PENDING
    /\ tasks[1].priority < tasks[2].priority
    /\ tasks[1].assigned_agent # tasks[2].assigned_agent
    /\ route_result = tasks[1].assigned_agent

\* C6 (as claimed): when a run starts streaming on a thread that has a
\* checkpoint, every task Completed in that checkpoint is a Completed task of
\* the run's state.
C6_ResumeKeepsCompleted ==
    [][(run_pc = "compiled" /\ run_pc' = "streaming" /\ Persisting
          /\ store[config] # NoCheckpoint) =>
          CompletedIds(store[config].tasks) \subseteq CompletedIds(tasks')]_vars

\* C7 (as claimed): after every completed step of every run the latest
\* checkpoint of the run's thread is the step's merged state.
C7_EveryStepCheckpointed ==
    AtStepEnd =>
       store[thread_id] =
          Snapshot(tasks, research_plan, ready_for_synthesis, completed)

\* C7 (amended): in a run that found the workflow's checkpointer set, and so
\* passes a config, the latest checkpoint of the run's thread is the merged
\* state after the input and after every completed step; a run that streams
\* without a config runs a graph compiled without checkpointer.
C7_CheckpointedWhenConfigured ==
    /\ (run_pc = "streaming" /\ ex_pc = "idle" /\ config # "None") =>
          store[config] =
             Snapshot(tasks, research_plan, ready_for_synthesis, completed)
    /\ (run_pc = "streaming" /\ config = "None") =>
          compiled = "plain"

\* C7 witness: a persisting run has finished an executor step that completed
\* a task, and the thread's checkpoint holds that task as Completed.
C7_Witness ==
    /\ AtStepEnd
    /\ config # "None"
    /\ Last(events) = "task_executor"
    /\ \E a \in Range(store[config].tasks) : a.status = COMPLETED

\* C8 (as claimed): once routing has returned "complete" and the step after it
\* (the supervisor's) is over, the state has completed = TRUE and no node is
\* left to run.
C8_TerminalEndsRun ==
    (AtStepEnd /\ route_result = "complete" /\ Last(events) # "task_executor") =>
       (completed = TRUE /\ node = "END")

\* C9 (as claimed, on plans that name registered workers only): when the
\* executor step is over, ready_for_synthesis is TRUE exactly when no task is
\* Pending.
C9_ReadyIffNoPending ==
    (/\ AtStepEnd
     /\ Last(events) = "task_executor"
     /\ \A a \in Range(tasks) : a.assigned_agent \in RegisteredAgents) =>
       (ready_for_synthesis <=> PendingIds(tasks) = {})

\* a step of SpecRoute that is a call of _route_tasks: no priority is edited
RouteCallStep ==
    /\ run_pc = "route"
    /\ Len(tasks') = Len(tasks)
    /\ \A k \in DOMAIN tasks : tasks'[k].priority = tasks[k].priority

C12_FailedCarriesReason ==
    ( /\ AtStepEnd
      /\ Last(events) = "task_executor"
      /\ Len(tasks) = 2
      /\ \A k \in DOMAIN tasks : tasks[k].assigned_agent \in RegisteredAgents
      /\ Cardinality({k \in DOMAIN tasks : tasks[k].id \in raised}) = 1 )
    => \A k \in DOMAIN tasks :
          IF tasks[k].id \in raised
          THEN tasks[k].status = FAILED /\ tasks[k].results # 0
          ELSE tasks[k].status = COMPLETED

\* C13: every task of a batch is marked IN_PROGRESS before any worker call
\* of that batch is started: when the batch is marked no call is in flight,
\* while a call is in flight no task of the batch is PENDING, and no PENDING
\* task of the list has a call in flight
C13_MarkedBeforeDispatch ==
    /\ ex_pc = "marked" =>
          /\ \A p \in DOMAIN batch : tasks[batch[p]].status = IN_PROGRESS
          /\ \A p \in DOMAIN calls : calls[p].st # "running"
    /\ (\E p \in DOMAIN calls : calls[p].st = "running") =>
          \A q \in DOMAIN batch : tasks[batch[q]].status # PENDING
    /\ \A k \in DOMAIN tasks : \A p \in DOMAIN calls :
          (tasks[k].status = PENDING /\ calls[p].st = "running")
             => calls[p].payload # tasks[k].id

\* a batch of BatchLimit tasks is marked and none of its calls is started
C13_Witness ==
    /\ ex_pc = "marked"
    /\ Len(batch) = BatchLimit
    /\ calls = <<>>
    /\ \A p \in DOMAIN batch : tasks[batch[p]].status = IN_PROGRESS

\* C14: whatever the order in which the worker calls of a batch end, a
\* COMPLETED task carries the payload returned by the call made for that
\* same task (the call's payload is the task's id), its own worker did not
\* raise, and a task that is not COMPLETED carries no payload at all
C14_ResultsMatchTask ==
    \A k \in DOMAIN tasks :
       IF tasks[k].status = COMPLETED
       THEN tasks[k].results = tasks[k].id /\ tasks[k].id \notin raised
       ELSE tasks[k].results = 0

\* a batch of three is over: the worker of the middle task raised, the calls
\* of its two neighbours returned, and each neighbour holds its own payload
C14_Witness ==
    /\ ex_pc = "loop"
    /\ Len(batch) = BatchLimit
    /\ tasks[batch[2]].status = FAILED /\ tasks[batch[2]].id \in raised
    /\ tasks[batch[1]].status = COMPLETED
    /\ tasks[batch[1]].results = tasks[batch[1]].id
    /\ tasks[batch[3]].status = COMPLETED
    /\ tasks[batch[3]].results = tasks[batch[3]].id

\* the task ids of a task list
TaskIds(ts) == {ts[k].id : k \in DOMAIN ts}

\* C15: the planner is called exactly once per run: the events of a run hold
\* at most one planner step, and it is there once a later node has run
C15_PlannerOnce ==
    /\ Cardinality({k \in DOMAIN events : events[k] = "planner"}) <= 1
    /\ Len(events) >= 2 => events[2] = "planner"

\* C16: a task created by the planning step is never removed: every step of
\* a run leaves in the task list every task id that was in it before (here
\* for lists whose tasks all name a registered agent)
C16_TasksNeverRemoved ==
    [][( /\ run_pc = "streaming"
         /\ runs' = runs
         /\ \A k \in DOMAIN tasks :
               tasks[k].assigned_agent \in RegisteredAgents )
          => TaskIds(tasks) \subseteq TaskIds(tasks')]_vars

\* C17 (as claimed): an executor step runs one batch only, so that a
\* checkpoint lies between any two consecutive batches
C17_OneBatchPerStep == Len(batches) <= 1

\* C17 (amended): one executor step runs every batch of the tasks that were
\* PENDING at its entry: no event is streamed and no checkpoint written from
\* its entry to its end, whatever the number of batches, and when the step
\* is over every task is COMPLETED or FAILED and the route is "complete"
C17_AllBatchesInOneStep ==
    /\ ex_pc # "idle" =>
          /\ Last(events) = "planner"
          /\ Persisting =>
                \A k \in Range(pending_tasks) :
                   store[config].tasks[k].status = PENDING
    /\ (AtStepEnd /\ Last(events) = "task_executor") =>
          /\ \A k \in DOMAIN tasks : tasks[k].status \in {COMPLETED, FAILED}
          /\ route_result = "complete"

\* the second batch of a persisting run's executor step is awaited: a task
\* of the first batch is COMPLETED and the thread's checkpoint still has it
\* PENDING
C17_Witness ==
    /\ Persisting
    /\ ex_pc = "gather"
    /\ Len(batches) = 2
    /\ \E k \in Range(pending_tasks) :
          /\ tasks[k].status = COMPLETED
          /\ store[config].tasks[k].status = PENDING

\* the tasks of the list whose assigned_agent is no registered worker name
Unregistered == {k \in DOMAIN tasks :
                    tasks[k].assigned_agent \notin RegisteredAgents}

\* C18 (as claimed): a task list that names an unregistered worker is
\* rejected before any task is dispatched: no task of such a list is ever
\* marked, run or resolved, and none is handled at dispatch time
C18_UnregisteredRejected ==
    Unregistered # {} =>
       /\ \A k \in DOMAIN tasks : tasks[k].status = PENDING
       /\ ex_pc \in {"idle", "loop"}

\* C18 (amended): a task that names an unregistered worker is handled at
\* dispatch time: its call of _execute_single_task ends with None at once
\* and without a worker, the task is FAILED with no payload when the
\* executor step is over, and the run goes on to the next node unhalted
C18_UnregisteredFailsAtDispatch ==
    /\ \A k \in Unregistered :
          /\ tasks[k].status \in {PENDING, IN_PROGRESS, FAILED}
          /\ tasks[k].results = 0
          /\ tasks[k].id \notin raised
    /\ ex_pc = "gather" =>
          \A p \in DOMAIN batch :
             batch[p] \in Unregistered => calls[p].st = "None"
    /\ (AtStepEnd /\ Last(events) = "task_executor" /\ Unregistered # {}) =>
          /\ \A k \in Unregistered : tasks[k].status = FAILED
          /\ error = "none"
          /\ node = "supervisor"

\* an executor step is over: the task of the unregistered name is FAILED, a
\* task of a registered worker of the same list is COMPLETED, the run goes on
C18_Witness ==
    /\ AtStepEnd
    /\ Last(events) = "task_executor"
    /\ node = "supervisor"
    /\ \E k \in Unregistered : tasks[k].status = FAILED
    /\ \E k \in DOMAIN tasks \ Unregistered : tasks[k].status = COMPLETED

\* C19: the graph is compiled at most once per workflow instance, also when
\* several runs call _ensure_compiled concurrently: every caller is returned
\* the same compiled graph, which is the one self.compiled holds
C19_CompiledOnce ==
    /\ compilations <= 1
    /\ \A c \in Callers : ec_pc[c] = "done" => handed[c] = compilations

\* C20: a worker call that never returns cannot keep its batch from
\* finishing: once every other call of the batch has ended, one of them
\* with a result, the wait for the batch is over, so that the hung call's
\* task can be marked FAILED and its siblings resolved
C20_HungCallDoesNotBlock ==
    ( /\ run_pc = "streaming"
      /\ ex_pc = "gather"
      /\ \E p \in DOMAIN calls : calls[p].st = "hung"
      /\ \E p \in DOMAIN calls : calls[p].st = "result"
      /\ \A p \in DOMAIN calls : calls[p].st # "running" )
    => /\ GatherDone(calls)
       /\ ENABLED BatchJoin

\* C21: right after the workflow is constructed, before any call of run or
\* of _ensure_compiled, its compiled graph is there: self.compiled is not
\* None
C21_CompiledAfterConstruction ==
    (runs = 0 /\ run_pc = "idle") => compiled # "None"

\* C22: the stream of a run on a freshly constructed workflow yields at
\* least one step event: when the first run is over, by an error or by its
\* caller, it has streamed an event
C22_FirstRunYieldsEvent ==
    (runs = 1 /\ run_pc \in {"halted", "closed"}) => Len(events) >= 1

\* C23: from the dispatch of a batch until every worker call of it has
\* returned the executor writes no task field and no field of the workflow
\* state: a call that ends leaves its result unapplied, and results are
\* merged into the tasks only by the step taken when the whole batch is in
C23_NoWriteBeforeJoin ==
    [][( /\ ex_pc = "gather"
         /\ \E p \in DOMAIN calls : calls[p].st \in {"running", "hung"} )
          => /\ UNCHANGED <<tasks, research_plan, ready_for_synthesis,
                            completed, store>>
             /\ \A p \in DOMAIN batch :
                   /\ tasks[batch[p]].status = IN_PROGRESS
                   /\ tasks[batch[p]].results = 0]_vars

\* one call of a batch has returned its result while a sibling call is
\* still awaited: the task of the returned call is IN_PROGRESS and empty
C23_Witness ==
    /\ ex_pc = "gather"
    /\ \E p, q \in DOMAIN calls :
          /\ calls[p].st = "result"
          /\ calls[q].st = "running"
          /\ tasks[batch[p]].status = IN_PROGRESS
          /\ tasks[batch[p]].results = 0

\* C24: a call of _task_executor_node keeps the task list's length and
\* order; it takes up exactly the tasks that are PENDING at its entry and
\* changes no field of any other task; when it returns normally every task
\* that was PENDING at entry is COMPLETED or FAILED; and entered with no
\* PENDING task it returns without a batch and without a worker call
C24_ExecutorPostcondition ==
    [][(run_pc = "streaming" /\ node = "task_executor") =>
          /\ Len(tasks') = Len(tasks)
          /\ \A k \in DOMAIN tasks : tasks'[k].id = tasks[k].id
          /\ (ex_pc = "idle" /\ ex_pc' # "idle") =>
                /\ tasks' = tasks
                /\ Range(pending_tasks') =
                      {k \in DOMAIN tasks : tasks[k].status = PENDING}
          /\ ex_pc # "idle" =>
                \A k \in DOMAIN tasks \ Range(pending_tasks) :
                   tasks'[k] = tasks[k]
          /\ (ex_pc # "idle" /\ ex_pc' = "idle" /\ run_pc' = "streaming") =>
                \A k \in Range(pending_tasks) :
                   tasks'[k].status \in {COMPLETED, FAILED}
          /\ (ex_pc = "idle" /\ node' # "task_executor") =>
                /\ tasks' = tasks
                /\ \A k \in DOMAIN tasks : tasks[k].status # PENDING
                /\ calls' = <<>> /\ batches' = <<>>]_vars

\* the node has returned from a list of four tasks, two of which were
\* PENDING at entry and are resolved now, while an IN_PROGRESS and a FAILED
\* task it was entered with are as they were
C24_Witness ==
    /\ run_pc = "streaming"
    /\ ex_pc = "idle"
    /\ Last(events) = "task_executor"
    /\ Len(tasks) = 4
    /\ Len(pending_tasks) = 2
    /\ \A k \in Range(pending_tasks) : tasks[k].status \in {COMPLETED, FAILED}
    /\ \E k \in DOMAIN tasks \ Range(pending_tasks) :
          tasks[k].status = IN_PROGRESS
    /\ \E k \in DOMAIN tasks \ Range(pending_tasks) :
          tasks[k].status = FAILED /\ tasks[k].id \notin raised

\* C25: whenever run() is about to start the stream of a compiled graph
\* that has a checkpointer attached, it has a config that carries the run's
\* thread id: the graph is never streamed with a checkpointer and no config
C25_ConfigWhenCheckpointer ==
    (run_pc = "compiled" /\ compiled = "with_checkpointer")
       => config = thread_id

\* C26: each time the conditional edge out of task_executor is evaluated,
\* after a normal return of the node, _route_tasks returns "complete": the
\* edge leads to the supervisor, no worker node is ever the node the edges
\* choose, and no name outside the declared outcomes is routed
C26_RouteAlwaysComplete ==
    /\ route_result \in {"none", "complete"}
    /\ node \notin RegisteredAgents \cup {"unroutable"}
    /\ (AtStepEnd /\ Last(events) = "task_executor") =>
          /\ route_result = "complete"
          /\ node = "supervisor"
          /\ route_tasks(tasks) = "complete"

\* the edge is evaluated after a step of two batches that left a FAILED and
\* a COMPLETED task of registered agents, and leads to the supervisor
C26_Witness ==
    /\ AtStepEnd
    /\ Last(events) = "task_executor"
    /\ Len(batches) = 2
    /\ route_result = "complete"
    /\ \E k \in DOMAIN tasks :
          tasks[k].status = FAILED /\ tasks[k].assigned_agent \in RegisteredAgents
    /\ \E k \in DOMAIN tasks : tasks[k].status = COMPLETED

\* C27: whenever self.compiled is set, self.checkpointer is set if and only
\* if self.compiled was compiled with a checkpointer, and then with that
\* very checkpointer, on every path of _ensure_compiled and in every
\* interleaving of concurrent calls
C27_CheckpointerMatchesCompiled ==
    compiled # "None" =>
       /\ checkpointer # "None" <=> compiled = "with_checkpointer"
       /\ checkpointer # "None" <=> cp_id # 0
       /\ cp_id = compiled_cp

\* two interleaved calls have both compiled: the second replaced the first
\* one's graph and checkpointer by a graph compiled with its own
C27_Witness ==
    /\ compilations = 2
    /\ compiled = "with_checkpointer"
    /\ cp_id = 2
    /\ compiled_cp = 2

\* C28: the factory creates and sets up at most one checkpointer per
\* process and returns that one instance to every caller, also to callers
\* that call it before the first creation is over
C28_SingleCheckpointer ==
    /\ created <= 1
    /\ \A c \in Callers : given[c] # 0 => given[c] = instance

IsMinAgent(x) == x \in MinAgents

\* what the k-th event of the stream must be for the scopes given: the two
\* opening events, a start and an end event per scope that names an agent,
\* in the order of scopes, and the two closing events
MinExpected(k, e) ==
    LET reg == SelectSeq(scopes, IsMinAgent)
        n == Len(reg)
    IN IF k = 1 THEN e = MinEvent("initialization", "-")
       ELSE IF k = 2 THEN e = MinEvent("planning", "-")
       ELSE IF k <= 2 + 2 * n
       THEN IF k % 2 = 1
            THEN e = MinEvent("agent_start", reg[(k - 1) \div 2])
            ELSE /\ e.type \in {"agent_complete", "agent_error"}
                 /\ e.agent = reg[(k - 2) \div 2]
       ELSE IF k = 3 + 2 * n THEN e = MinEvent("synthesis", "-")
       ELSE IF k = 4 + 2 * n THEN e = MinEvent("completion", "-")
       ELSE FALSE

\* C29: the events of MinimalWorkflow.run come in the order initialization,
\* planning, then agent_start and agent_complete or agent_error for each
\* scope that names an agent, in input order, then synthesis, then
\* completion as the last one; other scopes yield nothing; and the stream
\* always goes on to completion, whatever agent raised
C29_MinimalEventOrder ==
    /\ \A k \in DOMAIN min_events : MinExpected(k, min_events[k])
    /\ min_pc = "completion" =>
          Len(min_events) = 4 + 2 * Len(SelectSeq(scopes, IsMinAgent))
    /\ min_pc \notin {"none", "completion"} => ENABLED NextMinimal

\* the stream is complete for scopes that name an unknown scope between
\* two agents: the first agent raised and the second one completed
C29_Witness ==
    /\ min_pc = "completion"
    /\ \E a, b, c \in DOMAIN scopes :
          /\ a < b /\ b < c
          /\ scopes[a] \in MinAgents
          /\ scopes[b] \notin MinAgents
          /\ scopes[c] \in MinAgents
    /\ \E j, k \in DOMAIN min_events :
          /\ j < k
          /\ min_events[j].type = "agent_error"
          /\ min_events[k].type = "agent_complete"


\* C30: when a failed login is reported for a user who then has at least
\* max_failed_logins_per_hour failures within the last hour, the current
\* one counted, an authentication_abuse alert for that user is appended to
\* alerts, whatever failures of other users were reported in between
C30_AbuseAlwaysAlerted ==
    [][\A u \in MonUsers :
          ( /\ Len(login_log') = Len(login_log) + 1
            /\ Last(login_log').user_id = u
            /\ Cardinality(RecentFailures(login_log', u))
                  >= max_failed_logins_per_hour )
          => /\ alerts' # alerts
             /\ Last(alerts') = [alert_type |-> "authentication_abuse",
                                 user_id |-> u]]_vars

====
